---- MODULE Spec2Model ----
(***************************************************************************)
(* SpazzApp: the monthly cleaning scheduler (src/src/core/scheduler.py,    *)
(* src/src/core/models.py, src/src/utils/helpers.py).                      *)
(*                                                                         *)
(* A person is its position in the input list `people` (ties are broken by *)
(* list position everywhere in the code).  A date is an integer day number *)
(* of the month: day 1 is the first of the month, days <= 0 belong to the  *)
(* previous month and days > last_day to the next one.  A month is given   *)
(* by the weekday of its first day (0 = Monday) and its number of days.    *)
(***************************************************************************)
EXTENDS Integers, Sequences, FiniteSets, TLC

(* ---------------------------------------------------------------------- *)
(* Program constants                                                       *)
(* ---------------------------------------------------------------------- *)

\* STANZE_DEFAULT: the room list of a scheduler built without arguments
rooms == <<"Bagno", "Cucina", "Veranda", "Corridoio">>

\* the callers refuse to run the scheduler with fewer than 2 people
MinPeople == 2

(* ---------------------------------------------------------------------- *)
(* Bounds of the explored inputs                                           *)
(* ---------------------------------------------------------------------- *)

\* largest number of people in a run
MaxPeople == 5
\* only the first MaxConstrained people of the list have absences or
\* first-week exclusions
MaxConstrained == 2
\* the absences lie in one week, chosen among the first MaxAbsWeek weeks
MaxAbsWeek == 2

(* ---------------------------------------------------------------------- *)
(* Generic helpers                                                         *)
(* ---------------------------------------------------------------------- *)

Range(s) == {s[i] : i \in DOMAIN s}

Max(S) == CHOOSE x \in S : \A y \in S : y <= x

Min(S) == CHOOSE x \in S : \A y \in S : x <= y

RECURSIVE SumSeq(_)
SumSeq(s) == IF s = <<>> THEN 0 ELSE Head(s) + SumSeq(Tail(s))

\* position of x in s, 0 when absent
IndexOf(s, x) == IF \E i \in DOMAIN s : s[i] = x
                 THEN Min({i \in DOMAIN s : s[i] = x}) ELSE 0

RemoveAt(s, i) == SubSeq(s, 1, i - 1) \o SubSeq(s, i + 1, Len(s))

\* list.remove(x): drops the first occurrence
Remove(s, x) == IF IndexOf(s, x) = 0 THEN s ELSE RemoveAt(s, IndexOf(s, x))

\* sorted(set of integers)
RECURSIVE SortedSeq(_)
SortedSeq(S) == IF S = {} THEN <<>>
                ELSE LET m == Min(S) IN <<m>> \o SortedSeq(S \ {m})

\* list.sort(reverse=True, key=...): s ordered by descending key, elements
\* with equal keys keep their order; keys[i] is the key of s[i]
RECURSIVE SortDesc(_, _)
\* a variant that puts the last of the elements with equal keys first
RECURSIVE SortDesc_last_tie_first(_, _)
SortDesc_last_tie_first(s, keys) ==
  IF s = <<>> THEN <<>>
  ELSE LET best == Max(Range(keys))
           i == Max({j \in DOMAIN s : keys[j] = best})
       IN <<s[i]>> \o SortDesc_last_tie_first(RemoveAt(s, i),
                                              RemoveAt(keys, i))

SortDesc(s, keys) ==
  IF s = <<>> THEN <<>>
  ELSE LET best == Max(Range(keys))
           i == Min({j \in DOMAIN s : keys[j] = best})
       IN <<s[i]>> \o SortDesc(RemoveAt(s, i), RemoveAt(keys, i))

\* s ordered by ascending key, elements with equal keys keep their order
RECURSIVE SortAsc(_, _)
SortAsc(s, keys) ==
  IF s = <<>> THEN <<>>
  ELSE LET best == Min(Range(keys))
           i == Min({j \in DOMAIN s : keys[j] = best})
       IN <<s[i]>> \o SortAsc(RemoveAt(s, i), RemoveAt(keys, i))

RoomSet == Range(rooms)

NoPerson == 0

NoDate == -1000

None == "None"

(* ---------------------------------------------------------------------- *)
(* State                                                                   *)
(* ---------------------------------------------------------------------- *)

VARIABLES
  pc,                    \* position of the run inside generate_schedule
  \* arguments of generate_schedule
  people,                \* <<1, ..., n>>
  month,                 \* [first_weekday, last_day]
  absences,              \* person -> set of intervals <<start, end>>
  excluded_first_week,   \* person -> set of rooms
  priority_first_week,   \* sequence of rooms
  room_groups_config,    \* [abilitato, gruppi]
  \* CleaningScheduler
  room_groups,           \* the valid groups, [nome, stanze]
  len_rooms,             \* len(self.rooms), the num_rooms of a week
  weeks,                 \* sequence of <<week_start, week_end>>
  \* Person objects
  person_absences,       \* person -> set of dates (Person.absences)
  total_assignments,     \* person -> Nat
  room_assignments,      \* person -> [room -> Nat]
  weekly_data,           \* person -> sequence of WeeklyAssignment
  \* SchedulingState
  assignments,           \* the ledger, sequence of RoomAssignment
  daily_assignments,     \* date -> sequence of RoomAssignment
  \* locals of the week being processed
  week_num,
  available_people,
  person_targets,
  chronological_dates,
  person_assignments_count,
  rooms_assigned,
  date_idx,
  available_today,
  max_assignments_today,
  assignments_made_today,
  prioritized_rooms,
  room_idx,
  remaining_rooms,
  fallback_idx,
  \* locals of a grouped week
  assignment_units,
  unit_person_scores,
  combo_idx,
  assigned_units,
  assigned_people,
  used_dates,
  unassigned_units,
  \* local of _find_best_person_for_room
  candidate_scores,      \* candidates: sequence of <<score, person>>
  \* result
  df                     \* the returned frame, a sequence of rows

inputVars == <<people, month, absences, excluded_first_week,
               priority_first_week, room_groups_config, room_groups,
               len_rooms, weeks, person_absences>>

ledgerVars == <<total_assignments, room_assignments, weekly_data,
                assignments, daily_assignments>>

weekVars == <<available_people, person_targets, chronological_dates,
              person_assignments_count, rooms_assigned>>

dateVars == <<date_idx, available_today, max_assignments_today,
              assignments_made_today, prioritized_rooms, room_idx>>

fallbackVars == <<remaining_rooms, fallback_idx>>

unitVars == <<assignment_units, unit_person_scores, combo_idx,
              assigned_units, assigned_people, used_dates, unassigned_units>>

vars == <<pc, inputVars, ledgerVars, week_num, weekVars, dateVars,
          fallbackVars, unitVars, candidate_scores, df>>

(* ---------------------------------------------------------------------- *)
(* Calendar partitioner (helpers.py)                                       *)
(* ---------------------------------------------------------------------- *)

\* datetime.weekday(): 0 = Monday ... 6 = Sunday
weekday(d) == (d - 1 + month.first_weekday + 7) % 7

\* the while loop of get_month_weeks
RECURSIVE month_weeks_loop(_, _)
\* a variant that stops before a week starting on the last day of the month
RECURSIVE month_weeks_loop_before_last_day(_, _)
month_weeks_loop_before_last_day(current_week_start, last_day) ==
  IF current_week_start < last_day
  THEN <<<<current_week_start, current_week_start + 6>>>>
       \o month_weeks_loop_before_last_day(current_week_start + 7, last_day)
  ELSE <<>>

month_weeks_loop(current_week_start, last_day) ==
  IF current_week_start <= last_day
  THEN <<<<current_week_start, current_week_start + 6>>>>
       \o month_weeks_loop(current_week_start + 7, last_day)
  ELSE <<>>

get_month_weeks(m) == month_weeks_loop(1 - m.first_weekday, m.last_day)

(* ---------------------------------------------------------------------- *)
(* Person (models.py)                                                      *)
(* ---------------------------------------------------------------------- *)

get_room_count(person, room) ==
  IF room \in DOMAIN room_assignments[person]
  THEN room_assignments[person][room] ELSE 0

is_available_on_date(person, check_date) ==
  check_date \notin person_absences[person]

\* the days week_start .. week_end as a list
DaySeq(week_start, week_end) ==
  [i \in 1..(week_end - week_start + 1) |-> week_start + i - 1]

\* a variant that starts one day before the week window
get_available_days_from_eve(person, week_start, week_end) ==
  LET available_days == SelectSeq(DaySeq(week_start - 1, week_end),
                                  LAMBDA d : is_available_on_date(person, d))
      workdays == SelectSeq(available_days, LAMBDA d : weekday(d) < 5)
      weekends == SelectSeq(available_days, LAMBDA d : weekday(d) >= 5)
  IN workdays \o weekends

get_available_days_in_week(person, week_start, week_end) ==
  LET available_days == SelectSeq(DaySeq(week_start, week_end),
                                  LAMBDA d : is_available_on_date(person, d))
      workdays == SelectSeq(available_days, LAMBDA d : weekday(d) < 5)
      weekends == SelectSeq(available_days, LAMBDA d : weekday(d) >= 5)
  IN workdays \o weekends

\* WeeklyAssignment.get_assigned_dates
get_assigned_dates(weekly) ==
  {weekly.assignments[r] : r \in DOMAIN weekly.assignments}

has_used_day_in_week(person, check_date, week_number) ==
  IF week_number \notin DOMAIN weekly_data[person] THEN FALSE
  ELSE check_date \in get_assigned_dates(weekly_data[person][week_number])

(* ---------------------------------------------------------------------- *)
(* Scoring and targets of the ordinary week (scheduler.py)                 *)
(* ---------------------------------------------------------------------- *)

\* day_bonuses, Monday .. Sunday
day_bonuses == <<15, 12, 10, 8, 5, 3, 1>>

\* a variant that measures the load against 0 instead of the lowest load of
\* the people in context
calculate_person_room_score_against_zero_load(person, room, assignment_date, all_available_people) ==
  LET room_count == get_room_count(person, room)
      min_room_count == Min({get_room_count(all_available_people[i], room) :
                               i \in DOMAIN all_available_people})
      rotation == IF room_count = min_room_count THEN 400
                  ELSE IF room_count = min_room_count + 1 THEN 200
                  ELSE 0 - (room_count - min_room_count) * 100
      load == total_assignments[person]
      min_load == 0
      balance == IF load = min_load THEN 600
                 ELSE IF load = min_load + 1 THEN 400
                 ELSE IF load = min_load + 2 THEN 200
                 ELSE 0 - (load - min_load) * 150
      workday == IF weekday(assignment_date) < 5 THEN 30 ELSE 10
  IN rotation + balance + workday + day_bonuses[weekday(assignment_date) + 1]

calculate_person_room_score_with_context(person, room, assignment_date, all_available_people) ==
  LET room_count == get_room_count(person, room)
      min_room_count == Min({get_room_count(all_available_people[i], room) :
                               i \in DOMAIN all_available_people})
      rotation == IF room_count = min_room_count THEN 400
                  ELSE IF room_count = min_room_count + 1 THEN 200
                  ELSE 0 - (room_count - min_room_count) * 100
      load == total_assignments[person]
      min_load == Min({total_assignments[all_available_people[i]] :
                         i \in DOMAIN all_available_people})
      balance == IF load = min_load THEN 600
                 ELSE IF load = min_load + 1 THEN 400
                 ELSE IF load = min_load + 2 THEN 200
                 ELSE 0 - (load - min_load) * 150
      workday == IF weekday(assignment_date) < 5 THEN 30 ELSE 10
  IN rotation + balance + workday + day_bonuses[weekday(assignment_date) + 1]

\* the for loop of _calculate_balanced_targets from position i on, with
\* extra_rooms remainder rooms left; the targets as a list aligned with
\* available_people
RECURSIVE balanced_targets_loop(_, _, _, _, _, _)
\* a variant whose second branch hands a room to whoever is under the
\* maximum without looking at the remainder rooms left
RECURSIVE balanced_targets_loop_with_free_bonus(_, _, _, _, _, _)
balanced_targets_loop_with_free_bonus(ap, i, extra_rooms, base_per_person, min_assignments, max_assignments) ==
  IF i > Len(ap) THEN <<>>
  ELSE
    LET current_load == total_assignments[ap[i]]
        load_difference == max_assignments - current_load
        bonus_rooms ==
          IF max_assignments > min_assignments
          THEN IF current_load = min_assignments /\ extra_rooms > 0
               THEN Min({extra_rooms, load_difference + 1})
               ELSE IF current_load < max_assignments
               THEN 1
               ELSE 0
          ELSE IF i - 1 < extra_rooms THEN 1 ELSE 0
        extra_left == IF max_assignments > min_assignments
                      THEN Max({0, extra_rooms - bonus_rooms}) ELSE extra_rooms
    IN <<Max({0, base_per_person + bonus_rooms})>>
       \o balanced_targets_loop_with_free_bonus(ap, i + 1, extra_left,
                                                base_per_person,
                                                min_assignments,
                                                max_assignments)

balanced_targets_loop(ap, i, extra_rooms, base_per_person, min_assignments, max_assignments) ==
  IF i > Len(ap) THEN <<>>
  ELSE
    LET current_load == total_assignments[ap[i]]
        load_difference == max_assignments - current_load
        bonus_rooms ==
          IF max_assignments > min_assignments
          THEN IF current_load = min_assignments /\ extra_rooms > 0
               THEN Min({extra_rooms, load_difference + 1})
               ELSE IF current_load < max_assignments /\ extra_rooms > 0
               THEN Min({1, extra_rooms})
               ELSE 0
          ELSE IF i - 1 < extra_rooms THEN 1 ELSE 0
        extra_left == IF max_assignments > min_assignments
                      THEN extra_rooms - bonus_rooms ELSE extra_rooms
    IN <<Max({0, base_per_person + bonus_rooms})>>
       \o balanced_targets_loop(ap, i + 1, extra_left, base_per_person,
                                min_assignments, max_assignments)

calculate_balanced_targets(ap, num_rooms) ==
  IF ap = <<>> THEN <<>>
  ELSE
    LET loads == {total_assignments[ap[i]] : i \in DOMAIN ap}
        targets == balanced_targets_loop(ap, 1, num_rooms % Len(ap),
                                         num_rooms \div Len(ap),
                                         Min(loads), Max(loads))
    IN [p \in Range(ap) |-> targets[IndexOf(ap, p)]]

\* the priority score of one room in _prioritize_rooms_for_rotation
room_priority_score(room, ap) ==
  IF ap = <<>> THEN 0
  ELSE
    LET room_counts == [i \in DOMAIN ap |-> get_room_count(ap[i], room)]
        disparity == Max(Range(room_counts)) - Min(Range(room_counts))
        never_done_count == Cardinality({i \in DOMAIN ap : room_counts[i] = 0})
    IN disparity * 100 + never_done_count * 50
       + (IF SumSeq(room_counts) < Len(room_counts) THEN 25 ELSE 0)

prioritize_rooms_for_rotation(rs, ap) ==
  SortDesc(rs, [i \in DOMAIN rs |-> room_priority_score(rs[i], ap)])

is_excluded(person, room, week_number) ==
  week_number = 1 /\ room \in excluded_first_week[person]

find_best_person_for_room(room, ap, week_number, assignment_date) ==
  LET candidates == SelectSeq(ap, LAMBDA p : ~is_excluded(p, room, week_number))
      scores == [i \in DOMAIN candidates |->
                   calculate_person_room_score_with_context(
                     candidates[i], room, assignment_date, ap)]
  IN IF candidates = <<>> THEN NoPerson
     ELSE SortDesc(candidates, scores)[1]

\* the (person, date) pair _assign_remaining_rooms_fallback keeps for a room:
\* the first pair, persons outermost, whose score beats every earlier one,
\* starting from best_score = -1
fallback_best_assignment(room, ap, week_number, available_dates) ==
  LET eligible == {e \in (DOMAIN ap) \X (DOMAIN available_dates) :
                     /\ is_available_on_date(ap[e[1]], available_dates[e[2]])
                     /\ ~has_used_day_in_week(ap[e[1]], available_dates[e[2]],
                                              week_number)}
      score(e) == calculate_person_room_score_with_context(
                    ap[e[1]], room, available_dates[e[2]], ap)
      beating == {e \in eligible : score(e) > -1}
      position(e) == (e[1] - 1) * Len(available_dates) + e[2]
  IN IF beating = {} THEN <<NoPerson, NoDate>>
     ELSE LET best_score == Max({score(e) : e \in beating})
              first == Min({position(e) : e \in {x \in beating :
                                                   score(x) = best_score}})
              e == CHOOSE x \in beating : position(x) = first
          IN <<ap[e[1]], available_dates[e[2]]>>

(* ---------------------------------------------------------------------- *)
(* Room grouping (scheduler.py)                                            *)
(* ---------------------------------------------------------------------- *)

\* the RoomGroup list built from a configuration: a configured group keeps
\* its rooms that exist, and is kept when at least 2 remain
\* a variant that keeps a configured group as soon as one of its rooms exists
make_room_groups_keeping_short_groups(config) ==
  IF ~config.abilitato THEN <<>>
  ELSE
    LET valid == [i \in DOMAIN config.gruppi |->
                    [nome |-> config.gruppi[i].nome,
                     stanze |-> SelectSeq(config.gruppi[i].stanze,
                                          LAMBDA r : r \in RoomSet)]]
    IN SelectSeq(valid, LAMBDA g : Len(g.stanze) >= 1)

make_room_groups(config) ==
  IF ~config.abilitato THEN <<>>
  ELSE
    LET valid == [i \in DOMAIN config.gruppi |->
                    [nome |-> config.gruppi[i].nome,
                     stanze |-> SelectSeq(config.gruppi[i].stanze,
                                          LAMBDA r : r \in RoomSet)]]
    IN SelectSeq(valid, LAMBDA g : Len(g.stanze) >= 2)

\* a variant that makes a unit of every room and none of the groups
build_assignment_units_without_groups(groups) ==
  [i \in DOMAIN rooms |->
     [type |-> "single", rooms |-> <<rooms[i]>>, name |-> rooms[i]]]

\* the units of a grouped week: the groups first, then every room that is in
\* no group
build_assignment_units(groups) ==
  LET group_units == [i \in DOMAIN groups |->
                        [type |-> "group",
                         rooms |-> SelectSeq(groups[i].stanze,
                                             LAMBDA r : r \in RoomSet),
                         name |-> groups[i].nome]]
      kept == SelectSeq(group_units, LAMBDA u : Len(u.rooms) >= 2)
      grouped_rooms == UNION {Range(kept[i].rooms) : i \in DOMAIN kept}
      singles == SelectSeq(rooms, LAMBDA r : r \notin grouped_rooms)
  IN kept \o [i \in DOMAIN singles |->
                [type |-> "single", rooms |-> <<singles[i]>>,
                 name |-> singles[i]]]

calculate_balanced_targets_with_grouping(ap, units) ==
  IF ap = <<>> THEN <<>>
  ELSE
    LET total_weight == SumSeq([i \in DOMAIN units |-> Len(units[i].rooms)])
        base_weight_per_person == total_weight \div Len(ap)
        extra_weight == total_weight % Len(ap)
    IN [p \in Range(ap) |->
          Max({1, base_weight_per_person
                  + (IF IndexOf(ap, p) - 1 < extra_weight THEN 1 ELSE 0)})]

unit_blocked(person, unit, week_number) ==
  week_number = 1 /\ \E i \in DOMAIN unit.rooms :
                        unit.rooms[i] \in excluded_first_week[person]

\* the rotation bonus of one room of a unit in _calculate_unit_person_score
unit_room_rotation(person, room, all_people) ==
  LET room_count == get_room_count(person, room)
      min_room_count == Min({get_room_count(all_people[i], room) :
                               i \in DOMAIN all_people})
  IN IF room_count = min_room_count THEN 300
     ELSE IF room_count = min_room_count + 1 THEN 150
     ELSE 0 - (room_count - min_room_count) * 100

\* a variant whose last term rewards the people who already had groups
calculate_unit_person_score_rewarding_groups(person, unit, all_people) ==
  LET load == total_assignments[person]
      min_load == Min({total_assignments[all_people[i]] :
                         i \in DOMAIN all_people})
      balance == IF load = min_load THEN 1000
                 ELSE IF load = min_load + 1 THEN 700
                 ELSE IF load = min_load + 2 THEN 400
                 ELSE 0 - (load - min_load) * 200
      room_rotation_bonus ==
        SumSeq([i \in DOMAIN unit.rooms |->
                  unit_room_rotation(person, unit.rooms[i], all_people)])
      type_bonus == IF unit.type = "group" THEN 50 ELSE 20
      grouped_assignments ==
        Cardinality({i \in DOMAIN assignments :
                       assignments[i].person = person
                       /\ assignments[i].is_grouped})
      diversity == IF unit.type = "group" /\ grouped_assignments > 0
                   THEN grouped_assignments * 1000 ELSE 0
  IN balance + room_rotation_bonus + type_bonus + diversity

calculate_unit_person_score(person, unit, all_people) ==
  LET load == total_assignments[person]
      min_load == Min({total_assignments[all_people[i]] :
                         i \in DOMAIN all_people})
      balance == IF load = min_load THEN 1000
                 ELSE IF load = min_load + 1 THEN 700
                 ELSE IF load = min_load + 2 THEN 400
                 ELSE 0 - (load - min_load) * 200
      room_rotation_bonus ==
        SumSeq([i \in DOMAIN unit.rooms |->
                  unit_room_rotation(person, unit.rooms[i], all_people)])
      type_bonus == IF unit.type = "group" THEN 50 ELSE 20
      grouped_assignments ==
        Cardinality({i \in DOMAIN assignments :
                       assignments[i].person = person
                       /\ assignments[i].is_grouped})
      diversity == IF unit.type = "group" /\ grouped_assignments > 0
                   THEN 0 - grouped_assignments * 100 ELSE 0
  IN balance + room_rotation_bonus + type_bonus + diversity

\* the sorted (unit, person) combinations of _assign_units_with_balancing
score_unit_person_combinations(units, ap, week_number) ==
  LET all == [k \in 1..(Len(units) * Len(ap)) |->
                [unit |-> units[((k - 1) \div Len(ap)) + 1],
                 person |-> ap[((k - 1) % Len(ap)) + 1]]]
      allowed == SelectSeq(all, LAMBDA c :
                             ~unit_blocked(c.person, c.unit, week_number))
      scored == [i \in DOMAIN allowed |->
                   [unit |-> allowed[i].unit, person |-> allowed[i].person,
                    score |-> calculate_unit_person_score(
                                allowed[i].person, allowed[i].unit, ap)]]
  IN SortDesc(scored, [i \in DOMAIN scored |-> scored[i].score])

\* used_dates.get(d, 0)
day_load(used, d) == IF d \in DOMAIN used THEN used[d] ELSE 0

\* the score of one date in _find_best_date_with_distribution
date_distribution_score(person, unit, check_date, used) ==
  LET current_day_load == day_load(used, check_date)
      spread == IF current_day_load = 0 THEN 200
                ELSE IF current_day_load <= 1 THEN 100
                ELSE IF current_day_load <= 2 THEN 25
                ELSE 0 - current_day_load * 50
      workday == IF weekday(check_date) < 5 THEN 30 ELSE 10
      load == total_assignments[person]
      balance == IF load <= 2 THEN 50 ELSE IF load <= 4 THEN 25 ELSE 0
      crowd == IF unit.type = "group" /\ current_day_load > 0 THEN -30 ELSE 0
  IN spread + workday + day_bonuses[weekday(check_date) + 1] + balance + crowd

find_best_date_with_distribution(person, unit, available_dates, week_number, used) ==
  IF week_number \notin DOMAIN weekly_data[person] THEN NoDate
  ELSE
    LET eligible == {i \in DOMAIN available_dates :
                       /\ is_available_on_date(person, available_dates[i])
                       /\ ~has_used_day_in_week(person, available_dates[i],
                                                week_number)
                       /\ ~unit_blocked(person, unit, week_number)}
        score(i) == date_distribution_score(person, unit,
                                            available_dates[i], used)
        beating == {i \in eligible : score(i) > -1}
    IN IF beating = {} THEN NoDate
       ELSE LET best_score == Max({score(i) : i \in beating})
            IN available_dates[Min({i \in beating : score(i) = best_score})]

(* ---------------------------------------------------------------------- *)
(* SchedulingState.add_assignment (models.py)                              *)
(* ---------------------------------------------------------------------- *)

\* dict[k] = v
DictSet(f, k, v) == [x \in (DOMAIN f) \cup {k} |-> IF x = k THEN v ELSE f[x]]

\* the ledger and the counters it updates, as one value
Ledger == [assignments |-> assignments,
           daily_assignments |-> daily_assignments,
           weekly_data |-> weekly_data,
           room_assignments |-> room_assignments,
           total_assignments |-> total_assignments]

RoomAssignment(room, person, assignment_date, week_number, is_grouped, group_name) ==
  [room |-> room, person |-> person, assignment_date |-> assignment_date,
   week_number |-> week_number, is_grouped |-> is_grouped,
   group_name |-> group_name]

\* a variant that counts the room but not the total
add_assignment_without_total(L, a) ==
  [assignments |-> Append(L.assignments, a),
   daily_assignments |->
     DictSet(L.daily_assignments, a.assignment_date,
             Append(IF a.assignment_date \in DOMAIN L.daily_assignments
                    THEN L.daily_assignments[a.assignment_date] ELSE <<>>, a)),
   weekly_data |->
     IF a.week_number \in DOMAIN L.weekly_data[a.person]
     THEN [L.weekly_data EXCEPT ![a.person][a.week_number].assignments =
             DictSet(@, a.room, a.assignment_date)]
     ELSE L.weekly_data,
   room_assignments |->
     [L.room_assignments EXCEPT ![a.person][a.room] = @ + 1],
   total_assignments |-> L.total_assignments]

\* a variant that keeps one ledger entry per room: the entry of an earlier
\* week for the same room is replaced
add_assignment_replacing_room(L, a) ==
  [assignments |->
     Append(SelectSeq(L.assignments, LAMBDA b : b.room # a.room), a),
   daily_assignments |->
     DictSet(L.daily_assignments, a.assignment_date,
             Append(IF a.assignment_date \in DOMAIN L.daily_assignments
                    THEN L.daily_assignments[a.assignment_date] ELSE <<>>, a)),
   weekly_data |->
     IF a.week_number \in DOMAIN L.weekly_data[a.person]
     THEN [L.weekly_data EXCEPT ![a.person][a.week_number].assignments =
             DictSet(@, a.room, a.assignment_date)]
     ELSE L.weekly_data,
   room_assignments |->
     [L.room_assignments EXCEPT ![a.person][a.room] = @ + 1],
   total_assignments |->
     [L.total_assignments EXCEPT ![a.person] = @ + 1]]

\* a variant that counts the total but not the room
add_assignment_without_room_count(L, a) ==
  [assignments |-> Append(L.assignments, a),
   daily_assignments |->
     DictSet(L.daily_assignments, a.assignment_date,
             Append(IF a.assignment_date \in DOMAIN L.daily_assignments
                    THEN L.daily_assignments[a.assignment_date] ELSE <<>>, a)),
   weekly_data |->
     IF a.week_number \in DOMAIN L.weekly_data[a.person]
     THEN [L.weekly_data EXCEPT ![a.person][a.week_number].assignments =
             DictSet(@, a.room, a.assignment_date)]
     ELSE L.weekly_data,
   room_assignments |-> L.room_assignments,
   total_assignments |->
     [L.total_assignments EXCEPT ![a.person] = @ + 1]]

add_assignment(L, a) ==
  [assignments |-> Append(L.assignments, a),
   daily_assignments |->
     DictSet(L.daily_assignments, a.assignment_date,
             Append(IF a.assignment_date \in DOMAIN L.daily_assignments
                    THEN L.daily_assignments[a.assignment_date] ELSE <<>>, a)),
   weekly_data |->
     IF a.week_number \in DOMAIN L.weekly_data[a.person]
     THEN [L.weekly_data EXCEPT ![a.person][a.week_number].assignments =
             DictSet(@, a.room, a.assignment_date)]
     ELSE L.weekly_data,
   room_assignments |->
     [L.room_assignments EXCEPT ![a.person][a.room] = @ + 1],
   total_assignments |->
     [L.total_assignments EXCEPT ![a.person] = @ + 1]]

\* add_assignment for every room of a unit, in the order of the unit's rooms
RECURSIVE add_unit_assignments(_, _, _, _, _, _)
add_unit_assignments(L, unit, i, person, assignment_date, week_number) ==
  IF i > Len(unit.rooms) THEN L
  ELSE add_unit_assignments(
         add_assignment(L, RoomAssignment(
           unit.rooms[i], person, assignment_date, week_number,
           unit.type = "group",
           IF unit.type = "group" THEN unit.name ELSE None)),
         unit, i + 1, person, assignment_date, week_number)

\* the state after the calls of add_assignment that produced L
Commit(L) ==
  /\ assignments' = L.assignments
  /\ daily_assignments' = L.daily_assignments
  /\ weekly_data' = L.weekly_data
  /\ room_assignments' = L.room_assignments
  /\ total_assignments' = L.total_assignments

(* ---------------------------------------------------------------------- *)
(* Explored inputs                                                         *)
(* ---------------------------------------------------------------------- *)

\* a month of 4 week windows (it starts on a Monday and has 28 days)
FourWeekMonth == [first_weekday |-> 0, last_day |-> 28]

\* a month of 5 week windows (it starts on a Thursday and has 31 days)
FiveWeekMonth == [first_weekday |-> 3, last_day |-> 31]

Months == {FourWeekMonth, FiveWeekMonth}

\* the absence intervals a person may have in the week starting at ws: none,
\* the whole week, every day but Tuesday
AbsencePatterns(ws) ==
  { {},
    {<<ws, ws + 6>>},
    {<<ws, ws>>, <<ws + 2, ws + 6>>} }

\* the first-week exclusions: none, the first room excluded for every
\* constrained person, every room excluded for the first person
ExclusionChoices(n) ==
  LET constrained == 1..Min({n, MaxConstrained})
  IN { [p \in 1..n |-> {}],
       [p \in 1..n |-> IF p \in constrained THEN {rooms[1]} ELSE {}],
       [p \in 1..n |-> IF p = 1 THEN RoomSet ELSE {}] }

Reverse(s) == [i \in DOMAIN s |-> s[Len(s) + 1 - i]]

\* grouping disabled; a group with a single existing room, no valid group;
\* one group, 3 units; two groups, 2 units
GroupConfigs ==
  { [abilitato |-> FALSE, gruppi |-> <<>>],
    [abilitato |-> TRUE,
     gruppi |-> <<[nome |-> "Bagno+Soffitta",
                   stanze |-> <<"Bagno", "Soffitta">>]>>],
    [abilitato |-> TRUE,
     gruppi |-> <<[nome |-> "Cucina+Veranda",
                   stanze |-> <<"Cucina", "Veranda">>]>>],
    [abilitato |-> TRUE,
     gruppi |-> <<[nome |-> "Bagno+Corridoio",
                   stanze |-> <<"Bagno", "Corridoio">>],
                  [nome |-> "Cucina+Veranda",
                   stanze |-> <<"Cucina", "Veranda">>]>>] }

\* the absences of a run of n people: the first MaxConstrained people each
\* have one of the patterns, in the same week
AbsenceChoices(n, m) ==
  LET wks == get_month_weeks(m)
      constrained == 1..Min({n, MaxConstrained})
  IN UNION { { [p \in 1..n |-> IF p \in constrained THEN f[p] ELSE {}] :
                 f \in [constrained -> AbsencePatterns(wks[w][1])] } :
             w \in 1..Min({MaxAbsWeek, Len(wks)}) }

\* everybody is away from the first to the last day of the week windows
AllAbsent(n, m) ==
  LET wks == get_month_weeks(m)
  IN [p \in 1..n |-> {<<wks[1][1], wks[Len(wks)][2]>>}]

NoAbsences(n) == [p \in 1..n |-> {}]

\* the first person is away for the whole first week and, in the second
\* week, from Tuesday on
LongAbsence(n, m) ==
  LET wks == get_month_weeks(m)
  IN [p \in 1..n |->
        IF p = 1 THEN {<<wks[1][1], wks[1][2]>>, <<wks[2][1] + 1, wks[2][2]>>}
        ELSE {}]

\* Person.absences: the dates of the intervals
expand_absences(intervals) == UNION {i[1]..i[2] : i \in intervals}

(* ---------------------------------------------------------------------- *)
(* generate_schedule                                                       *)
(* ---------------------------------------------------------------------- *)

Init ==
  /\ pc = "idle"
  /\ people = <<>>
  /\ month = FourWeekMonth
  /\ absences = <<>>
  /\ excluded_first_week = <<>>
  /\ priority_first_week = rooms
  /\ room_groups_config = [abilitato |-> FALSE, gruppi |-> <<>>]
  /\ room_groups = <<>>
  /\ len_rooms = Len(rooms)
  /\ weeks = <<>>
  /\ person_absences = <<>>
  /\ total_assignments = <<>>
  /\ room_assignments = <<>>
  /\ weekly_data = <<>>
  /\ assignments = <<>>
  /\ daily_assignments = <<>>
  /\ week_num = 0
  /\ available_people = <<>>
  /\ person_targets = <<>>
  /\ chronological_dates = <<>>
  /\ person_assignments_count = <<>>
  /\ rooms_assigned = {}
  /\ date_idx = 0
  /\ available_today = <<>>
  /\ max_assignments_today = 0
  /\ assignments_made_today = 0
  /\ prioritized_rooms = <<>>
  /\ room_idx = 0
  /\ remaining_rooms = <<>>
  /\ fallback_idx = 0
  /\ assignment_units = <<>>
  /\ unit_person_scores = <<>>
  /\ combo_idx = 0
  /\ assigned_units = {}
  /\ assigned_people = {}
  /\ used_dates = <<>>
  /\ unassigned_units = <<>>
  /\ candidate_scores = <<>>
  /\ df = <<>>

\* lines 50-101: the group list is rebuilt from the configuration, the week
\* windows are computed and the Person objects and the state are created
SetUp(n, m, abs, excl, prio, config) ==
  /\ pc' = "week_loop"
  /\ people' = [i \in 1..n |-> i]
  /\ month' = m
  /\ absences' = abs
  /\ excluded_first_week' = excl
  /\ priority_first_week' = prio
  /\ room_groups_config' = config
  /\ room_groups' = make_room_groups(config)
  /\ len_rooms' = Len(rooms)
  /\ weeks' = get_month_weeks(m)
  /\ person_absences' = [p \in 1..n |-> expand_absences(abs[p])]
  /\ total_assignments' = [p \in 1..n |-> 0]
  /\ room_assignments' = [p \in 1..n |-> [r \in RoomSet |-> 0]]
  /\ weekly_data' = [p \in 1..n |-> <<>>]
  /\ assignments' = <<>>
  /\ daily_assignments' = <<>>
  /\ week_num' = 1
  /\ UNCHANGED <<weekVars, dateVars, fallbackVars, unitVars, df>>
  /\ UNCHANGED candidate_scores

\* a call without absences and exclusions, with any priority order
GenerateSchedulePlain ==
  /\ pc = "idle"
  /\ \E n \in MinPeople..MaxPeople, m \in Months, config \in GroupConfigs,
        prio \in {rooms, Reverse(rooms)} :
       SetUp(n, m, NoAbsences(n), [p \in 1..n |-> {}], prio, config)

\* a call with absences and exclusions, priority_first_week omitted
GenerateScheduleConstrained ==
  /\ pc = "idle"
  /\ \E n \in MinPeople..MaxPeople, m \in {FourWeekMonth},
        config \in GroupConfigs :
       \E abs \in AbsenceChoices(n, m), excl \in ExclusionChoices(n) :
         SetUp(n, m, abs, excl, rooms, config)

\* a call for which everybody is away for the whole month
GenerateScheduleAllAbsent ==
  /\ pc = "idle"
  /\ \E n \in MinPeople..MaxPeople :
       SetUp(n, FourWeekMonth, AllAbsent(n, FourWeekMonth),
             [p \in 1..n |-> {}], rooms, [abilitato |-> FALSE, gruppi |-> <<>>])

\* two configured groups that share the room Cucina
SharedRoomConfig ==
  [abilitato |-> TRUE,
   gruppi |-> <<[nome |-> "Bagno+Cucina", stanze |-> <<"Bagno", "Cucina">>],
                [nome |-> "Cucina+Veranda",
                 stanze |-> <<"Cucina", "Veranda">>]>>]

\* a call without absences and exclusions whose groups share a room
GenerateScheduleSharedRoom ==
  /\ pc = "idle"
  /\ \E n \in MinPeople..MaxPeople :
       SetUp(n, FourWeekMonth, NoAbsences(n), [p \in 1..n |-> {}], rooms,
             SharedRoomConfig)

\* a call whose first two people are excluded from every room in week 1,
\* with the group Cucina+Veranda
GenerateScheduleTwoExcluded ==
  /\ pc = "idle"
  /\ \E n \in MinPeople..MaxPeople :
       SetUp(n, FourWeekMonth, NoAbsences(n),
             [p \in 1..n |-> IF p <= 2 THEN RoomSet ELSE {}], rooms,
             [abilitato |-> TRUE,
              gruppi |-> <<[nome |-> "Cucina+Veranda",
                            stanze |-> <<"Cucina", "Veranda">>]>>])

\* a call for which the first person comes back on the Monday of week 2
GenerateScheduleLongAbsence ==
  /\ pc = "idle"
  /\ \E n \in MinPeople..MaxPeople :
       SetUp(n, FourWeekMonth, LongAbsence(n, FourWeekMonth),
             [p \in 1..n |-> {}], rooms, [abilitato |-> FALSE, gruppi |-> <<>>])

(* ---------------------------------------------------------------------- *)
(* The loop over the weeks (generate_schedule, lines 108-135)              *)
(* ---------------------------------------------------------------------- *)

week_start == weeks[week_num][1]

week_end == weeks[week_num][2]

\* lines 112-118: every person gets the WeeklyAssignment of the week
with_weekly_data(wd) ==
  [p \in DOMAIN wd |->
     Append(wd[p], [week_number |-> week_num, week_start |-> week_start,
                    week_end |-> week_end, assignments |-> <<>>])]

\* a variant that keeps the people who are away for the whole week
participants_with_absentees == people

\* lines 121-126: the people with at least one available day in the week
participants ==
  SelectSeq(people, LAMBDA p :
              get_available_days_in_week(p, week_start, week_end) # <<>>)

\* a variant that does not count the participants
should_group_rooms_for_any_count(ap) ==
  /\ room_groups_config.abilitato
  /\ Len(room_groups) > 0

\* lines 187-191
should_group_rooms(ap) ==
  /\ Len(ap) = 3
  /\ room_groups_config.abilitato
  /\ Len(room_groups) > 0

\* lines 205-212: the dates on which some participant is available, sorted
all_chronological_dates(ap) ==
  SortedSeq(UNION {Range(get_available_days_in_week(ap[i], week_start,
                                                     week_end)) :
                     i \in DOMAIN ap})

NextWeek ==
  /\ week_num' = week_num + 1
  /\ pc' = "week_loop"

\* lines 128-130: nobody is available, the week is skipped
SkipWeek ==
  /\ pc = "week_loop"
  /\ week_num <= Len(weeks)
  /\ participants = <<>>
  /\ weekly_data' = with_weekly_data(weekly_data)
  /\ NextWeek
  /\ UNCHANGED <<inputVars, total_assignments, room_assignments, assignments,
                 daily_assignments, weekVars, dateVars, fallbackVars,
                 unitVars, df>>
  /\ UNCHANGED candidate_scores

\* the set-up of the chronological pass: targets, dates and the counters
StartNormalLogic(ap) ==
  /\ weekly_data' = with_weekly_data(weekly_data)
  /\ available_people' = ap
  /\ person_targets' = calculate_balanced_targets(ap, len_rooms)
  /\ chronological_dates' = all_chronological_dates(ap)
  /\ person_assignments_count' = [p \in Range(ap) |-> 0]
  /\ rooms_assigned' = {}
  /\ date_idx' = 1
  /\ pc' = "date_loop"
  /\ UNCHANGED <<inputVars, total_assignments, room_assignments, assignments,
                 daily_assignments, week_num, available_today,
                 max_assignments_today, assignments_made_today,
                 prioritized_rooms, room_idx, fallbackVars, unitVars, df>>

\* a variant whose targets are those of the units
assign_week_normal_logic_with_unit_targets(ap, dates) ==
  /\ weekly_data' = with_weekly_data(weekly_data)
  /\ available_people' = ap
  /\ person_targets' =
       calculate_balanced_targets_with_grouping(
         ap, build_assignment_units(room_groups))
  /\ chronological_dates' = dates
  /\ person_assignments_count' = [p \in Range(ap) |-> 0]
  /\ rooms_assigned' = {}
  /\ date_idx' = 1
  /\ pc' = "date_loop"
  /\ UNCHANGED <<inputVars, total_assignments, room_assignments, assignments,
                 daily_assignments, week_num, available_today,
                 max_assignments_today, assignments_made_today,
                 prioritized_rooms, room_idx, fallbackVars, unitVars, df>>

\* _assign_week_normal_logic, lines 641-660: the set-up of the chronological
\* pass of a week whose dates the caller computed (lines 579-586); its loop
\* over the dates and its fallback call, lines 662-739, are those of
\* _assign_week_with_objects, lines 220-297
assign_week_normal_logic(ap, dates) ==
  /\ weekly_data' = with_weekly_data(weekly_data)
  /\ available_people' = ap
  /\ person_targets' = calculate_balanced_targets(ap, len_rooms)
  /\ chronological_dates' = dates
  /\ person_assignments_count' = [p \in Range(ap) |-> 0]
  /\ rooms_assigned' = {}
  /\ date_idx' = 1
  /\ pc' = "date_loop"
  /\ UNCHANGED <<inputVars, total_assignments, room_assignments, assignments,
                 daily_assignments, week_num, available_today,
                 max_assignments_today, assignments_made_today,
                 prioritized_rooms, room_idx, fallbackVars, unitVars, df>>

\* _assign_week_with_objects, lines 198-217: an ordinary week begins
StartWeek ==
  /\ pc = "week_loop"
  /\ week_num <= Len(weeks)
  /\ participants # <<>>
  /\ ~should_group_rooms(participants)
  /\ StartNormalLogic(participants)
  /\ UNCHANGED candidate_scores

\* _assign_week_with_grouping, lines 619-624, and _assign_week_normal_logic,
\* lines 650-660: the units are not 3, the week is an ordinary one
StartWeekWithoutUnits ==
  /\ pc = "week_loop"
  /\ week_num <= Len(weeks)
  /\ should_group_rooms(participants)
  /\ Len(build_assignment_units(room_groups)) # 3
  /\ assign_week_normal_logic(participants,
                              all_chronological_dates(participants))
  /\ UNCHANGED candidate_scores

\* _assign_week_with_grouping, lines 578-631, and the scoring of
\* _assign_units_with_balancing, lines 826-861: a grouped week begins
StartGroupedWeek ==
  /\ pc = "week_loop"
  /\ week_num <= Len(weeks)
  /\ should_group_rooms(participants)
  /\ LET units == build_assignment_units(room_groups)
     IN /\ Len(units) = 3
        /\ assignment_units' = units
        /\ person_targets' =
             calculate_balanced_targets_with_grouping(participants, units)
        /\ unit_person_scores' =
             score_unit_person_combinations(units, participants, week_num)
  /\ weekly_data' = with_weekly_data(weekly_data)
  /\ available_people' = participants
  /\ chronological_dates' = all_chronological_dates(participants)
  /\ combo_idx' = 1
  /\ assigned_units' = {}
  /\ assigned_people' = {}
  /\ used_dates' = <<>>
  /\ pc' = "units"
  /\ UNCHANGED <<inputVars, total_assignments, room_assignments, assignments,
                 daily_assignments, week_num, person_assignments_count,
                 rooms_assigned, dateVars, fallbackVars, unassigned_units, df>>
  /\ UNCHANGED candidate_scores

(* ---------------------------------------------------------------------- *)
(* The chronological pass (_assign_week_with_objects, lines 219-299)       *)
(* ---------------------------------------------------------------------- *)

unassigned_rooms == SelectSeq(rooms, LAMBDA r : r \notin rooms_assigned)

current_date == chronological_dates[date_idx]

\* a variant that keeps the people who have reached their weekly target
people_available_today_ignoring_target ==
  SelectSeq(available_people, LAMBDA p :
              /\ week_num \in DOMAIN weekly_data[p]
              /\ is_available_on_date(p, current_date)
              /\ ~has_used_day_in_week(p, current_date, week_num))

\* lines 229-237
people_available_today ==
  SelectSeq(available_people, LAMBDA p :
              /\ week_num \in DOMAIN weekly_data[p]
              /\ is_available_on_date(p, current_date)
              /\ ~has_used_day_in_week(p, current_date, week_num)
              /\ person_assignments_count[p] < person_targets[p])

\* a variant without the cap of 3 rooms per date
day_quota_without_cap(remaining_room_count, remaining_dates) ==
  Max({1, remaining_room_count \div Max({1, remaining_dates})})

\* lines 246-248
day_quota(remaining_room_count, remaining_dates) ==
  Min({3, Max({1, remaining_room_count \div Max({1, remaining_dates})})})

\* lines 220-253: the head of one iteration of the loop over the dates
BeginDate ==
  /\ pc = "date_loop"
  /\ date_idx <= Len(chronological_dates)
  /\ unassigned_rooms # <<>>
  /\ IF people_available_today = <<>>
     THEN /\ date_idx' = date_idx + 1
          /\ UNCHANGED <<pc, available_today, max_assignments_today,
                         assignments_made_today, prioritized_rooms, room_idx>>
     ELSE /\ available_today' = people_available_today
          /\ max_assignments_today' =
               day_quota(Len(unassigned_rooms),
                         Cardinality({i \in DOMAIN chronological_dates :
                                        chronological_dates[i] >= current_date}))
          /\ assignments_made_today' = 0
          /\ prioritized_rooms' =
               prioritize_rooms_for_rotation(unassigned_rooms,
                                             people_available_today)
          /\ room_idx' = 1
          /\ pc' = "room_loop"
          /\ UNCHANGED date_idx
  /\ UNCHANGED <<inputVars, ledgerVars, week_num, weekVars, fallbackVars,
                 unitVars, df>>
  /\ UNCHANGED candidate_scores

\* lines 255-289: one iteration of the loop over the prioritized rooms
TryRoom ==
  /\ pc = "room_loop"
  /\ LET room == prioritized_rooms[room_idx]
         best_person ==
           IF room \in rooms_assigned THEN NoPerson
           ELSE find_best_person_for_room(room, available_today, week_num,
                                          current_date)
         made == IF best_person = NoPerson THEN assignments_made_today
                 ELSE assignments_made_today + 1
     IN /\ IF best_person = NoPerson
           THEN UNCHANGED <<ledgerVars, rooms_assigned,
                            person_assignments_count, available_today>>
           ELSE /\ Commit(add_assignment(Ledger,
                     RoomAssignment(room, best_person, current_date, week_num,
                                    FALSE, None)))
                /\ rooms_assigned' = rooms_assigned \cup {room}
                /\ person_assignments_count' =
                     [person_assignments_count EXCEPT ![best_person] = @ + 1]
                /\ available_today' =
                     IF person_assignments_count[best_person] + 1
                          >= person_targets[best_person]
                     THEN Remove(available_today, best_person)
                     ELSE available_today
        /\ assignments_made_today' = made
        /\ IF room_idx = Len(prioritized_rooms) \/ made >= max_assignments_today
           THEN /\ date_idx' = date_idx + 1
                /\ pc' = "date_loop"
                /\ UNCHANGED room_idx
           ELSE /\ room_idx' = room_idx + 1
                /\ UNCHANGED <<pc, date_idx>>
  /\ UNCHANGED <<inputVars, week_num, available_people, person_targets,
                 chronological_dates, max_assignments_today,
                 prioritized_rooms, fallbackVars, unitVars, df>>
  /\ UNCHANGED candidate_scores

\* lines 291-299: the loop over the dates is over; the rooms left go to the
\* fallback
FinishDates ==
  /\ pc = "date_loop"
  /\ date_idx > Len(chronological_dates) \/ unassigned_rooms = <<>>
  /\ remaining_rooms' = unassigned_rooms
  /\ IF unassigned_rooms = <<>>
     THEN NextWeek /\ UNCHANGED fallback_idx
     ELSE /\ fallback_idx' = 1
          /\ pc' = "fallback"
          /\ UNCHANGED week_num
  /\ UNCHANGED <<inputVars, ledgerVars, weekVars, dateVars, unitVars, df>>
  /\ UNCHANGED candidate_scores

\* _assign_remaining_rooms_fallback, lines 543-568: one leftover room
FallbackRoom ==
  /\ pc = "fallback"
  /\ LET room == remaining_rooms[fallback_idx]
         best_assignment ==
           fallback_best_assignment(room, available_people, week_num,
                                    chronological_dates)
     IN IF best_assignment[1] = NoPerson
        THEN UNCHANGED ledgerVars
        ELSE Commit(add_assignment(Ledger,
               RoomAssignment(room, best_assignment[1], best_assignment[2],
                              week_num, FALSE, None)))
  /\ IF fallback_idx = Len(remaining_rooms)
     THEN NextWeek /\ UNCHANGED fallback_idx
     ELSE /\ fallback_idx' = fallback_idx + 1
          /\ UNCHANGED <<pc, week_num>>
  /\ UNCHANGED <<inputVars, weekVars, dateVars, remaining_rooms, unitVars, df>>
  /\ UNCHANGED candidate_scores

(* ---------------------------------------------------------------------- *)
(* The grouped week (_assign_units_with_balancing, lines 863-935)          *)
(* ---------------------------------------------------------------------- *)

\* lines 863-907: one iteration of the loop over the scored combinations
AssignUnit ==
  /\ pc = "units"
  /\ combo_idx <= Len(unit_person_scores)
  /\ LET unit == unit_person_scores[combo_idx].unit
         person == unit_person_scores[combo_idx].person
         taken == unit.name \in assigned_units \/ person \in assigned_people
         best_date ==
           IF taken THEN NoDate
           ELSE find_best_date_with_distribution(
                  person, unit, chronological_dates, week_num, used_dates)
     IN IF best_date = NoDate
        THEN /\ combo_idx' = combo_idx + 1
             /\ UNCHANGED <<ledgerVars, assigned_units, assigned_people,
                            used_dates>>
        ELSE /\ Commit(add_unit_assignments(Ledger, unit, 1, person,
                                            best_date, week_num))
             /\ assigned_units' = assigned_units \cup {unit.name}
             /\ assigned_people' = assigned_people \cup {person}
             /\ used_dates' =
                  DictSet(used_dates, best_date,
                          day_load(used_dates, best_date) + Len(unit.rooms))
             /\ combo_idx' =
                  IF Cardinality(assigned_units \cup {unit.name})
                       = Len(assignment_units)
                  THEN Len(unit_person_scores) + 1
                  ELSE combo_idx + 1
  /\ UNCHANGED <<pc, inputVars, week_num, weekVars, dateVars, fallbackVars,
                 assignment_units, unit_person_scores, unassigned_units, df>>
  /\ UNCHANGED candidate_scores

\* lines 909-912: the loop over the combinations is over
FinishUnits ==
  /\ pc = "units"
  /\ combo_idx > Len(unit_person_scores)
  /\ LET left == SelectSeq(assignment_units,
                           LAMBDA u : u.name \notin assigned_units)
     IN /\ unassigned_units' = left
        /\ IF left = <<>>
           THEN NextWeek /\ UNCHANGED fallback_idx
           ELSE /\ fallback_idx' = 1
                /\ pc' = "unit_fallback"
                /\ UNCHANGED week_num
  /\ UNCHANGED <<inputVars, ledgerVars, weekVars, dateVars, remaining_rooms,
                 assignment_units, unit_person_scores, combo_idx,
                 assigned_units, assigned_people, used_dates, df>>
  /\ UNCHANGED candidate_scores

\* lines 914-933: one unit nobody took goes to the first person without a
\* unit, on the first date of the week
FallbackUnit ==
  /\ pc = "unit_fallback"
  /\ LET unit == unassigned_units[fallback_idx]
         available_for_fallback ==
           SelectSeq(available_people, LAMBDA p : p \notin assigned_people)
     IN IF available_for_fallback # <<>> /\ chronological_dates # <<>>
        THEN Commit(add_unit_assignments(Ledger, unit, 1,
                                         available_for_fallback[1],
                                         chronological_dates[1], week_num))
        ELSE UNCHANGED ledgerVars
  /\ IF fallback_idx = Len(unassigned_units)
     THEN NextWeek /\ UNCHANGED fallback_idx
     ELSE /\ fallback_idx' = fallback_idx + 1
          /\ UNCHANGED <<pc, week_num>>
  /\ UNCHANGED <<inputVars, weekVars, dateVars, remaining_rooms, unitVars, df>>
  /\ UNCHANGED candidate_scores

(* ---------------------------------------------------------------------- *)
(* The result (generate_schedule, lines 137-174)                           *)
(* ---------------------------------------------------------------------- *)

\* the rooms in the order of Python's string comparison
alphabetical_rooms == <<"Bagno", "Corridoio", "Cucina", "Veranda">>

\* lines 139-164: one row per assignment of the ledger
schedule_row(a) ==
  [Settimana |-> a.week_number,
   Stanza |-> a.room,
   Persona |-> a.person,
   Data_Specifica |-> a.assignment_date,
   Giorno_Settimana |-> weekday(a.assignment_date),
   Data_Inizio |-> weeks[a.week_number][1],
   Data_Fine |-> weeks[a.week_number][2]]

schedule_rows ==
  LET known == SelectSeq(assignments,
                         LAMBDA a : a.week_number \in DOMAIN weeks)
  IN [i \in DOMAIN known |-> schedule_row(known[i])]

\* line 171: sort_values(['Data_Specifica', 'Stanza'])
sort_rows(rows) ==
  SortAsc(rows, [i \in DOMAIN rows |->
                   (rows[i].Data_Specifica + 10) * 10
                   + IndexOf(alphabetical_rooms, rows[i].Stanza)])

\* lines 137-174: the ledger is turned into the sorted frame and returned
ReturnSchedule ==
  /\ pc = "week_loop"
  /\ week_num > Len(weeks)
  /\ schedule_rows # <<>>
  /\ df' = sort_rows(schedule_rows)
  /\ pc' = "done"
  /\ UNCHANGED <<inputVars, ledgerVars, week_num, weekVars, dateVars,
                 fallbackVars, unitVars>>
  /\ UNCHANGED candidate_scores

\* lines 169-171: a frame without rows has no column 'Data_Specifica', and
\* sort_values raises KeyError
RaiseOnEmptySchedule ==
  /\ pc = "week_loop"
  /\ week_num > Len(weeks)
  /\ schedule_rows = <<>>
  /\ pc' = "raised"
  /\ UNCHANGED <<inputVars, ledgerVars, week_num, weekVars, dateVars,
                 fallbackVars, unitVars, df>>
  /\ UNCHANGED candidate_scores

(* ---------------------------------------------------------------------- *)
(* get_month_weeks on its own, for every month                             *)
(* ---------------------------------------------------------------------- *)

\* a month starts on any weekday and has 28 to 31 days
AllMonths == [first_weekday : 0..6, last_day : 28..31]

\* lines 46, 49 and 54: the start of the week the loop is about to append
current_week_start ==
  IF weeks = <<>> THEN 1 - month.first_weekday
  ELSE weeks[Len(weeks)][1] + 7

InitCalendar ==
  /\ pc = "calendar"
  /\ people = <<>>
  /\ month \in AllMonths
  /\ absences = <<>>
  /\ excluded_first_week = <<>>
  /\ priority_first_week = rooms
  /\ room_groups_config = [abilitato |-> FALSE, gruppi |-> <<>>]
  /\ room_groups = <<>>
  /\ len_rooms = Len(rooms)
  /\ weeks = <<>>
  /\ person_absences = <<>>
  /\ total_assignments = <<>>
  /\ room_assignments = <<>>
  /\ weekly_data = <<>>
  /\ assignments = <<>>
  /\ daily_assignments = <<>>
  /\ week_num = 0
  /\ available_people = <<>>
  /\ person_targets = <<>>
  /\ chronological_dates = <<>>
  /\ person_assignments_count = <<>>
  /\ rooms_assigned = {}
  /\ date_idx = 0
  /\ available_today = <<>>
  /\ max_assignments_today = 0
  /\ assignments_made_today = 0
  /\ prioritized_rooms = <<>>
  /\ room_idx = 0
  /\ remaining_rooms = <<>>
  /\ fallback_idx = 0
  /\ assignment_units = <<>>
  /\ unit_person_scores = <<>>
  /\ combo_idx = 0
  /\ assigned_units = {}
  /\ assigned_people = {}
  /\ used_dates = <<>>
  /\ unassigned_units = <<>>
  /\ candidate_scores = <<>>
  /\ df = <<>>

\* lines 51-54: one iteration of the while loop
AppendWeek ==
  /\ pc = "calendar"
  /\ current_week_start <= month.last_day
  /\ weeks' = Append(weeks, <<current_week_start, current_week_start + 6>>)
  /\ UNCHANGED <<pc, people, month, absences, excluded_first_week,
                 priority_first_week, room_groups_config, room_groups,
                 len_rooms, person_absences, ledgerVars, week_num, weekVars,
                 dateVars, fallbackVars, unitVars, df>>
  /\ UNCHANGED candidate_scores

\* line 56: the loop is over, the weeks are returned
ReturnWeeks ==
  /\ pc = "calendar"
  /\ current_week_start > month.last_day
  /\ pc' = "calendar_done"
  /\ UNCHANGED <<people, month, absences, excluded_first_week,
                 priority_first_week, room_groups_config, room_groups,
                 len_rooms, weeks, person_absences, ledgerVars, week_num,
                 weekVars, dateVars, fallbackVars, unitVars, df>>
  /\ UNCHANGED candidate_scores

NextCalendar == AppendWeek \/ ReturnWeeks

SpecCalendar == InitCalendar /\ [][NextCalendar]_vars

(* ---------------------------------------------------------------------- *)
(* _calculate_balanced_targets on its own: any participants, any loads     *)
(* ---------------------------------------------------------------------- *)

\* the largest total_assignments a participant starts with
MaxLoad == 3

\* the largest number of rooms handed to _calculate_balanced_targets
MaxRooms == 5

InitTargets ==
  /\ pc = "targets"
  /\ \E n \in 1..MaxPeople :
       /\ people = [i \in 1..n |-> i]
       /\ total_assignments \in [1..n -> 0..MaxLoad]
  /\ len_rooms \in 1..MaxRooms
  /\ month = FourWeekMonth
  /\ absences = <<>>
  /\ excluded_first_week = <<>>
  /\ priority_first_week = rooms
  /\ room_groups_config = [abilitato |-> FALSE, gruppi |-> <<>>]
  /\ room_groups = <<>>
  /\ weeks = <<>>
  /\ person_absences = <<>>
  /\ room_assignments = <<>>
  /\ weekly_data = <<>>
  /\ assignments = <<>>
  /\ daily_assignments = <<>>
  /\ week_num = 0
  /\ available_people = <<>>
  /\ person_targets = <<>>
  /\ chronological_dates = <<>>
  /\ person_assignments_count = <<>>
  /\ rooms_assigned = {}
  /\ date_idx = 0
  /\ available_today = <<>>
  /\ max_assignments_today = 0
  /\ assignments_made_today = 0
  /\ prioritized_rooms = <<>>
  /\ room_idx = 0
  /\ remaining_rooms = <<>>
  /\ fallback_idx = 0
  /\ assignment_units = <<>>
  /\ unit_person_scores = <<>>
  /\ combo_idx = 0
  /\ assigned_units = {}
  /\ assigned_people = {}
  /\ used_dates = <<>>
  /\ unassigned_units = <<>>
  /\ candidate_scores = <<>>
  /\ df = <<>>

\* lines 301-355: the function is applied to the participants and the rooms
CalculateTargets ==
  /\ pc = "targets"
  /\ available_people' = people
  /\ person_targets' = calculate_balanced_targets(people, len_rooms)
  /\ pc' = "targets_done"
  /\ UNCHANGED <<inputVars, ledgerVars, week_num, chronological_dates,
                 person_assignments_count, rooms_assigned, dateVars,
                 fallbackVars, unitVars, df>>
  /\ UNCHANGED candidate_scores

NextTargets == CalculateTargets

SpecTargets == InitTargets /\ [][NextTargets]_vars

(* ---------------------------------------------------------------------- *)
(* _calculate_person_room_score_with_context on its own                    *)
(* ---------------------------------------------------------------------- *)

\* the largest number of people in the context of a score
MaxContext == 2

\* the histories of n people: how often each has cleaned the first room and
\* how often the second one
Histories(n) == [1..n -> (0..MaxLoad) \X (0..MaxLoad)]

InitScore ==
  /\ pc = "score"
  /\ \E n \in 1..MaxContext :
       /\ people = [i \in 1..n |-> i]
       /\ available_today = [i \in 1..n |-> i]
       /\ excluded_first_week = [p \in 1..n |-> {}]
       /\ \E done \in Histories(n) :
            /\ room_assignments =
                 [p \in 1..n |->
                    [r \in RoomSet |-> IF r = rooms[1] THEN done[p][1]
                                       ELSE IF r = rooms[2] THEN done[p][2]
                                       ELSE 0]]
            /\ total_assignments = [p \in 1..n |-> done[p][1] + done[p][2]]
  /\ month = FourWeekMonth
  /\ \E d \in 1..7 : chronological_dates = <<d>>
  /\ date_idx = 1
  /\ prioritized_rooms = <<rooms[1]>>
  /\ room_idx = 1
  /\ week_num = 2
  /\ absences = <<>>
  /\ priority_first_week = rooms
  /\ room_groups_config = [abilitato |-> FALSE, gruppi |-> <<>>]
  /\ room_groups = <<>>
  /\ len_rooms = Len(rooms)
  /\ weeks = <<>>
  /\ person_absences = <<>>
  /\ weekly_data = <<>>
  /\ assignments = <<>>
  /\ daily_assignments = <<>>
  /\ available_people = <<>>
  /\ person_targets = <<>>
  /\ person_assignments_count = <<>>
  /\ rooms_assigned = {}
  /\ max_assignments_today = 0
  /\ assignments_made_today = 0
  /\ remaining_rooms = <<>>
  /\ fallback_idx = 0
  /\ assignment_units = <<>>
  /\ unit_person_scores = <<>>
  /\ combo_idx = 0
  /\ assigned_units = {}
  /\ assigned_people = {}
  /\ used_dates = <<>>
  /\ unassigned_units = <<>>
  /\ candidate_scores = <<>>
  /\ df = <<>>

\* _find_best_person_for_room, lines 405-417: every person who is not
\* excluded is scored for the room
ScoreCandidates ==
  /\ pc = "score"
  /\ LET room == prioritized_rooms[room_idx]
         scored == SelectSeq(available_today,
                             LAMBDA p : ~is_excluded(p, room, week_num))
     IN candidate_scores' =
          [i \in DOMAIN scored |->
             <<calculate_person_room_score_with_context(
                 scored[i], room, current_date, available_today),
               scored[i]>>]
  /\ pc' = "score_done"
  /\ UNCHANGED <<inputVars, ledgerVars, week_num, weekVars, dateVars,
                 fallbackVars, unitVars, df>>

NextScore == ScoreCandidates

SpecScore == InitScore /\ [][NextScore]_vars

Next ==
  \/ GenerateSchedulePlain
  \/ GenerateScheduleConstrained
  \/ GenerateScheduleAllAbsent
  \/ GenerateScheduleLongAbsence
  \/ GenerateScheduleSharedRoom
  \/ GenerateScheduleTwoExcluded
  \/ SkipWeek
  \/ StartWeek
  \/ StartWeekWithoutUnits
  \/ StartGroupedWeek
  \/ BeginDate
  \/ TryRoom
  \/ FinishDates
  \/ FallbackRoom
  \/ AssignUnit
  \/ FinishUnits
  \/ FallbackUnit
  \/ ReturnSchedule
  \/ RaiseOnEmptySchedule

Spec == Init /\ [][Next]_vars

(* ---------------------------------------------------------------------- *)
(* Properties                                                              *)
(* ---------------------------------------------------------------------- *)

\* the person of a row that marks a room as unassigned
Unassigned == NoPerson

Ledger_of(person) ==
  {i \in DOMAIN assignments : assignments[i].person = person}

\* the person is absent on all 7 days of week window w
AwayAllWeek(person, w) ==
  \A d \in weeks[w][1]..weeks[w][2] : d \in person_absences[person]

NoConstraints ==
  /\ \A p \in DOMAIN person_absences : person_absences[p] = {}
  /\ \A p \in DOMAIN excluded_first_week : excluded_first_week[p] = {}

\* C1: the returned frame has, for every week window and every room, a row
\* that gives the room to a person or marks it as unassigned
C1_EveryRoomOfEveryWeekIsReported ==
  pc = "done" =>
    \A w \in DOMAIN weeks, r \in RoomSet :
      \E i \in DOMAIN df :
        /\ df[i].Settimana = w
        /\ df[i].Stanza = r
        /\ df[i].Persona \in Range(people) \cup {Unassigned}

\* C2: no person holds two assignments with the same date
C2_OneAssignmentPerPersonAndDate ==
  \A i, j \in DOMAIN assignments :
    (i < j /\ assignments[i].person = assignments[j].person)
      => assignments[i].assignment_date # assignments[j].assignment_date

\* C3: for every person, total_assignments is the sum over the rooms of
\* room_assignments[room]
C3_TotalIsSumOfRoomCounts ==
  \A p \in DOMAIN total_assignments :
    total_assignments[p] =
      SumSeq([i \in DOMAIN rooms |-> room_assignments[p][rooms[i]]])

\* C3 witness: add_assignment has run for two different rooms of one person
C3_Witness ==
  \E p \in DOMAIN total_assignments :
    \E r1, r2 \in RoomSet :
      /\ r1 # r2
      /\ room_assignments[p][r1] >= 1
      /\ room_assignments[p][r2] >= 1
      /\ total_assignments[p] >= 3

\* C4: no assignment is on a date of its person's absences
C4_NoAssignmentOnAbsence ==
  \A i \in DOMAIN assignments :
    assignments[i].assignment_date
      \notin person_absences[assignments[i].person]

\* C5: in week 1 no assignment gives a person a room of that person's
\* first-week exclusions
C5_FirstWeekExclusionsRespected ==
  \A i \in DOMAIN assignments :
    assignments[i].week_number = 1
      => assignments[i].room
           \notin excluded_first_week[assignments[i].person]

\* C6: in week 1, between two dates of the chronological pass: a room that was
\* committed on a date precedes, in priority_first_week, every room that was
\* still unassigned on that date and was not committed on it (stated for the
\* runs without absences and exclusions, where every room has a candidate)
C6_FirstWeekFollowsPriority ==
  (pc = "date_loop" /\ week_num = 1 /\ NoConstraints) =>
    \A i \in DOMAIN assignments :
      \A r \in RoomSet \ {assignments[i].room} :
        (\A j \in DOMAIN assignments :
           assignments[j].room = r =>
             assignments[j].assignment_date > assignments[i].assignment_date)
        => IndexOf(priority_first_week, assignments[i].room)
             < IndexOf(priority_first_week, r)

\* C7: every assignment of the ledger has a room of the configured rooms and a
\* date inside the week window whose number the assignment carries
C7_AssignmentInsideItsWeekWindow ==
  \A i \in DOMAIN assignments :
    /\ assignments[i].room \in RoomSet
    /\ assignments[i].week_number \in DOMAIN weeks
    /\ weeks[assignments[i].week_number][1] <= assignments[i].assignment_date
    /\ assignments[i].assignment_date <= weeks[assignments[i].week_number][2]

\* C7 witness: a finished run over five week windows whose ledger has an
\* assignment of the first week dated before the first of the month
C7_Witness ==
  /\ pc = "done"
  /\ Len(weeks) = 5
  /\ \E i \in DOMAIN assignments :
       /\ assignments[i].week_number = 1
       /\ assignments[i].assignment_date < 1
  /\ \E i \in DOMAIN assignments : assignments[i].week_number = 5

Spread ==
  Max({total_assignments[p] : p \in DOMAIN total_assignments})
    - Min({total_assignments[p] : p \in DOMAIN total_assignments})

\* C8: after a run over at least 4 week windows without absences and without
\* first-week exclusions, the totals of any two people differ by at most 1
C8_TotalsDifferByAtMostOne ==
  (/\ pc = "done"
   /\ NoConstraints
   /\ ~room_groups_config.abilitato
   /\ Len(weeks) >= 4) => Spread <= 1

\* C9: four people, four rooms, four week windows, no absences and no
\* exclusions: every person has exactly one assignment in each week, and the
\* four weeks give every person every room exactly once
C9_FourByFourIsLatinSquare ==
  (/\ pc = "done"
   /\ Len(people) = 4
   /\ Len(weeks) = 4
   /\ NoConstraints) =>
    /\ \A p \in Range(people), w \in DOMAIN weeks :
         Cardinality({i \in Ledger_of(p) :
                        assignments[i].week_number = w}) = 1
    /\ \A p \in Range(people), r \in RoomSet :
         Cardinality({i \in Ledger_of(p) : assignments[i].room = r}) = 1

InsideWeek == pc \in {"date_loop", "room_loop", "fallback", "units",
                      "unit_fallback"}

Remaining == {p \in Range(people) : ~AwayAllWeek(p, week_num)}

\* C10: a person whose absences cover the 7 days of a week window has no
\* assignment in that week, and the targets of the week are those of the
\* remaining people only, each at least numRooms \div their number and at most
\* that plus the remainder
C10_WholeWeekAbsenceLeavesPersonOut ==
  /\ \A i \in DOMAIN assignments :
       ~AwayAllWeek(assignments[i].person, assignments[i].week_number)
  /\ InsideWeek =>
       /\ DOMAIN person_targets = Remaining
       /\ \A p \in Remaining :
            /\ person_targets[p] >= (Len(rooms) \div Cardinality(Remaining))
            /\ person_targets[p] <= (Len(rooms) \div Cardinality(Remaining))
                                      + (Len(rooms) % Cardinality(Remaining))

\* C10 witness: a week in which one person is away on all 7 days has been
\* assigned to the others, who hold all its rooms
C10_Witness ==
  /\ pc = "week_loop"
  /\ week_num > 1
  /\ \E p \in Range(people) :
       /\ AwayAllWeek(p, week_num - 1)
       /\ \A r \in RoomSet :
            \E i \in DOMAIN assignments :
              /\ assignments[i].week_number = week_num - 1
              /\ assignments[i].room = r
              /\ assignments[i].person # p

\* the people who are not away on all 7 days of week window w
RemainingIn(w) == {p \in Range(people) : ~AwayAllWeek(p, w)}

OneGroupConfig ==
  /\ room_groups_config.abilitato
  /\ Len(room_groups_config.gruppi) = 1
  /\ room_groups_config.gruppi[1].stanze = <<"Cucina", "Veranda">>

SameHandsInWeek(w, r1, r2) ==
  \E i, j \in DOMAIN assignments :
    /\ assignments[i].week_number = w /\ assignments[i].room = r1
    /\ assignments[j].week_number = w /\ assignments[j].room = r2
    /\ assignments[i].person = assignments[j].person
    /\ assignments[i].assignment_date = assignments[j].assignment_date

\* C11: with the single group {Cucina, Veranda} enabled, a week of exactly 3
\* participants is assigned by units, the units are the group, Bagno and
\* Corridoio, and once the week is over Cucina and Veranda have the same
\* person and the same date
C11_GroupSharesPersonAndDate ==
  OneGroupConfig =>
    /\ (InsideWeek /\ Cardinality(Remaining) = 3) =>
         /\ pc \in {"units", "unit_fallback"}
         /\ Len(assignment_units) = 3
         /\ {assignment_units[i].rooms : i \in DOMAIN assignment_units}
              = {<<"Cucina", "Veranda">>, <<"Bagno">>, <<"Corridoio">>}
    /\ \A w \in DOMAIN weeks :
         (w < week_num /\ Cardinality(RemainingIn(w)) = 3)
           => SameHandsInWeek(w, "Cucina", "Veranda")

\* C11 witness: a week of 3 participants out of 4 people is over, and Cucina
\* and Veranda went to one person as a group
C11_Witness ==
  /\ OneGroupConfig
  /\ pc = "week_loop"
  /\ week_num > 1
  /\ Len(people) = 4
  /\ Cardinality(RemainingIn(week_num - 1)) = 3
  /\ \E i \in DOMAIN assignments :
       /\ assignments[i].week_number = week_num - 1
       /\ assignments[i].room = "Veranda"
       /\ assignments[i].is_grouped

\* the grouping preconditions hold for week w but its units are not 3
UnitsMismatchIn(w) ==
  /\ Cardinality(RemainingIn(w)) = 3
  /\ room_groups_config.abilitato
  /\ Len(room_groups) > 0
  /\ Len(build_assignment_units(room_groups)) # 3

GroupingApplies(w) ==
  /\ Cardinality(RemainingIn(w)) = 3
  /\ room_groups_config.abilitato
  /\ Len(room_groups) > 0

\* C13: a week is assigned by units only if exactly 3 people take part in it,
\* grouping is enabled and a valid group exists; any other week runs the
\* ordinary algorithm, and none of its assignments is marked as grouped
C13_GroupingOnlyForThreeParticipants ==
  /\ pc \in {"units", "unit_fallback"} => GroupingApplies(week_num)
  /\ (InsideWeek /\ ~GroupingApplies(week_num))
       => pc \in {"date_loop", "room_loop", "fallback"}
  /\ \A i \in DOMAIN assignments :
       assignments[i].is_grouped
         => GroupingApplies(assignments[i].week_number)

\* C13 witness: grouping is enabled with a valid group, a week of 4
\* participants has been assigned by the ordinary algorithm, and a week of 3
\* participants of the same run by units
C13_Witness ==
  /\ room_groups_config.abilitato
  /\ Len(room_groups) > 0
  /\ \E w1, w2 \in DOMAIN weeks :
       /\ w1 < week_num /\ w2 < week_num
       /\ Cardinality(RemainingIn(w1)) = 4
       /\ \E i \in DOMAIN assignments : assignments[i].week_number = w1
       /\ Cardinality(RemainingIn(w2)) = 3
       /\ \E i \in DOMAIN assignments :
            assignments[i].week_number = w2 /\ assignments[i].is_grouped

MondayToSunday(ws) ==
  \A i \in DOMAIN ws : weekday(ws[i][1]) = 0 /\ weekday(ws[i][2]) = 6
                         /\ ws[i][2] = ws[i][1] + 6

DisjointAndIncreasing(ws) ==
  \A i, j \in DOMAIN ws : i < j => ws[i][2] < ws[j][1]

CoversMonth(ws) ==
  \A d \in 1..month.last_day :
    \E i \in DOMAIN ws : ws[i][1] <= d /\ d <= ws[i][2]

\* C14: the week windows of get_month_weeks each run from a Monday to the
\* following Sunday, are pairwise disjoint and in increasing order, and
\* together hold every day of the month; the loop returns these windows
C14_WeeksPartitionTheMonth ==
  /\ MondayToSunday(get_month_weeks(month))
  /\ DisjointAndIncreasing(get_month_weeks(month))
  /\ CoversMonth(get_month_weeks(month))
  /\ pc = "calendar_done" => weeks = get_month_weeks(month)

\* C14 witness: the windows of a month of 31 days have been returned, and
\* the sixth of them starts on the last day of the month
C14_Witness ==
  /\ pc = "calendar_done"
  /\ month.last_day = 31
  /\ Len(weeks) = 6
  /\ weeks[6][1] = 31

(* ---------------------------------------------------------------------- *)
(* Weekly targets                                                          *)
(* ---------------------------------------------------------------------- *)

TargetsComputed == pc = "targets_done"

EqualShare == len_rooms \div Len(available_people)

UnequalLoads ==
  \E p, q \in Range(available_people) :
    total_assignments[p] # total_assignments[q]

\* the rooms a participant gets beyond the equal share
RemainderRoomsOf(p) == person_targets[p] - EqualShare

LowestLoad == Min({total_assignments[p] : p \in Range(available_people)})

HighestLoad == Max({total_assignments[p] : p \in Range(available_people)})

\* C15: when the number of rooms is a multiple of the number of participants,
\* every participant's target is the quotient, whatever the loads are
C15_DivisibleRoomsGiveEqualTargets ==
  (TargetsComputed /\ len_rooms % Len(available_people) = 0)
    => \A p \in Range(available_people) :
         person_targets[p] = EqualShare

\* two rooms each for participants whose loads differ
C15_Witness ==
  /\ TargetsComputed
  /\ Len(available_people) >= 2
  /\ len_rooms = 2 * Len(available_people)
  /\ UnequalLoads
  /\ \A p \in Range(available_people) : person_targets[p] = 2

\* C19: when the rooms are not a multiple of the participants and the loads
\* differ, nobody above the lowest load gets a remainder room while somebody
\* at the lowest load gets none, and nobody at the highest load gets one
C19_RemainderGoesToLowestLoadFirst ==
  (TargetsComputed /\ len_rooms % Len(available_people) # 0 /\ UnequalLoads)
    => /\ \A p, q \in Range(available_people) :
            (/\ total_assignments[p] > LowestLoad
             /\ RemainderRoomsOf(p) > 0
             /\ total_assignments[q] = LowestLoad)
              => RemainderRoomsOf(q) > 0
       /\ \A p \in Range(available_people) :
            total_assignments[p] = HighestLoad => RemainderRoomsOf(p) = 0

TargetsOfAll ==
  [i \in DOMAIN available_people |-> person_targets[available_people[i]]]

\* C20: for every non-empty list of participants and every number of rooms
\* the targets sum to the number of rooms
C20_TargetsSumToRooms ==
  TargetsComputed => SumSeq(TargetsOfAll) = len_rooms

(* ---------------------------------------------------------------------- *)
(* Failures                                                                *)
(* ---------------------------------------------------------------------- *)

\* C16: generate_schedule never raises for absences, even when they leave
\* nobody available in any week of the month
C16_RunNeverRaises == pc # "raised"

(* ---------------------------------------------------------------------- *)
(* Determinism                                                             *)
(* ---------------------------------------------------------------------- *)

\* the people of today who may take the room, in the order of the input list
Candidates(room) ==
  SelectSeq(available_today, LAMBDA p : ~is_excluded(p, room, week_num))

ScoreToday(p, room) ==
  calculate_person_room_score_with_context(p, room, current_date,
                                           available_today)

\* p has the highest score for the room, and nobody before p in the list has
\* the same score
FirstOfTheBest(p, room) ==
  LET c == Candidates(room)
  IN /\ p \in Range(c)
     /\ \A i \in DOMAIN c :
          /\ ScoreToday(c[i], room) <= ScoreToday(p, room)
          /\ ScoreToday(c[i], room) = ScoreToday(p, room)
               => i >= IndexOf(c, p)

LedgerExtended ==
  /\ Len(assignments') >= Len(assignments)
  /\ SubSeq(assignments', 1, Len(assignments)) = assignments

CountersNotDecreased ==
  \A p \in DOMAIN total_assignments :
    /\ p \in DOMAIN total_assignments'
    /\ total_assignments'[p] >= total_assignments[p]
    /\ \A r \in DOMAIN room_assignments[p] :
         /\ r \in DOMAIN room_assignments'[p]
         /\ room_assignments'[p][r] >= room_assignments[p][r]

\* C18: a step leaves the ledger as it is or appends to it, a committed
\* assignment is never removed or changed, and no total_assignments or
\* room_assignments[room] of a person decreases
C18_LedgerIsAppendOnly == [][LedgerExtended /\ CountersNotDecreased]_vars

\* the run is over with rooms committed in its first and in its last week
C18_Witness ==
  /\ pc = "done"
  /\ Len(assignments) >= 2
  /\ assignments[1].week_number = 1
  /\ assignments[Len(assignments)].week_number = Len(weeks)
  /\ \E p \in DOMAIN total_assignments : total_assignments[p] >= 2

(* ---------------------------------------------------------------------- *)
(* The fallback pass                                                       *)
(* ---------------------------------------------------------------------- *)

\* the (participant, date) pairs of the week where the participant is
\* available on the date and has no assignment on it yet
EligiblePairs ==
  {e \in Range(available_people) \X Range(chronological_dates) :
     /\ is_available_on_date(e[1], e[2])
     /\ ~has_used_day_in_week(e[1], e[2], week_num)}

PairScore(e, room) ==
  calculate_person_room_score_with_context(e[1], room, e[2], available_people)

\* C21: a leftover room with an eligible pair is assigned by the fallback
\* pass, and to a pair with the highest score among the eligible pairs
C21_FallbackAssignsBestEligiblePair ==
  [][(pc = "fallback" /\ EligiblePairs # {})
       => LET room == remaining_rooms[fallback_idx]
              a == assignments'[Len(assignments')]
          IN /\ Len(assignments') = Len(assignments) + 1
             /\ a.room = room
             /\ <<a.person, a.assignment_date>> \in EligiblePairs
             /\ \A e \in EligiblePairs :
                  PairScore(e, room)
                    <= PairScore(<<a.person, a.assignment_date>>, room)]_vars

(* ---------------------------------------------------------------------- *)
(* Rooms of a week                                                         *)
(* ---------------------------------------------------------------------- *)

\* the ledger entries of room r in week w
EntriesOf(w, r) ==
  {i \in DOMAIN assignments :
     assignments[i].week_number = w /\ assignments[i].room = r}

\* C22: in every week every room is assigned at most once, in ordinary and
\* in grouped weeks, for every accepted group configuration
C22_RoomAssignedAtMostOncePerWeek ==
  \A w \in DOMAIN weeks : \A r \in RoomSet : Cardinality(EntriesOf(w, r)) <= 1

(* ---------------------------------------------------------------------- *)
(* Units of a grouped week                                                 *)
(* ---------------------------------------------------------------------- *)

\* week w is assigned by units
GroupedWeek(w) == GroupingApplies(w) /\ ~UnitsMismatchIn(w)

\* the name of the unit a ledger entry belongs to
UnitNameOf(a) == IF a.is_grouped THEN a.group_name ELSE a.room

\* the people holding the unit in week w
HoldersOf(w, unit) ==
  {assignments[i].person : i \in {j \in DOMAIN assignments :
     /\ assignments[j].week_number = w
     /\ UnitNameOf(assignments[j]) = unit.name}}

\* the units person p holds in week w
UnitsHeldBy(w, p) ==
  {UnitNameOf(assignments[i]) : i \in {j \in DOMAIN assignments :
     /\ assignments[j].week_number = w
     /\ assignments[j].person = p}}

\* C23: once a grouped week is over every unit has exactly one person and
\* every participant has at most one unit, whether the units were given by
\* the pass over the scored pairs or by the fallback
C23_OneUnitPerPersonAndOnePersonPerUnit ==
  \A w \in DOMAIN weeks :
    (w < week_num /\ GroupedWeek(w))
      => /\ \A i \in DOMAIN build_assignment_units(room_groups) :
              Cardinality(HoldersOf(w, build_assignment_units(room_groups)[i]))
                = 1
         /\ \A p \in Range(people) : Cardinality(UnitsHeldBy(w, p)) <= 1

(* ---------------------------------------------------------------------- *)
(* The chronological pass                                                  *)
(* ---------------------------------------------------------------------- *)

\* the ledger entries of week w dated d
CommittedOn(w, d) ==
  Cardinality({i \in DOMAIN assignments :
                 /\ assignments[i].week_number = w
                 /\ assignments[i].assignment_date = d})

\* the quota of the k-th date of the week, from the rooms that were
\* unassigned when the date began and the dates from the k-th on; no later
\* date has been processed
QuotaAtStartOf(k) ==
  LET rooms_at_start ==
        Len(unassigned_rooms) + CommittedOn(week_num, chronological_dates[k])
      remaining_dates == Len(chronological_dates) - k + 1
  IN Min({3, Max({1, rooms_at_start \div remaining_dates})})

\* C24: the rooms committed on a date of the chronological pass are at most
\* the quota computed when the date began, and at most 3
C24_CommitsWithinDayQuota ==
  /\ pc = "room_loop"
       => /\ max_assignments_today = QuotaAtStartOf(date_idx)
          /\ CommittedOn(week_num, current_date) = assignments_made_today
          /\ assignments_made_today < QuotaAtStartOf(date_idx)
  /\ (pc = "date_loop" /\ date_idx > 1)
       => CommittedOn(week_num, chronological_dates[date_idx - 1])
            <= QuotaAtStartOf(date_idx - 1)
  /\ pc \in {"date_loop", "room_loop"}
       => \A d \in Range(chronological_dates) : CommittedOn(week_num, d) <= 3

\* the quota of 3 was reached on a date that began with 4 unassigned rooms
C24_Witness ==
  /\ pc = "date_loop"
  /\ date_idx > 1
  /\ Len(unassigned_rooms) = 1
  /\ CommittedOn(week_num, chronological_dates[date_idx - 1]) = 3

\* the rooms of week w in the ledger that went to person p
RoomsInWeekOf(w, p) ==
  Cardinality({i \in DOMAIN assignments :
                 /\ assignments[i].week_number = w
                 /\ assignments[i].person = p})

\* C25: during the chronological pass nobody holds more rooms of the week
\* than the weekly target, and the pool of the date holds only people under
\* their target
C25_CountWithinWeeklyTarget ==
  /\ pc \in {"date_loop", "room_loop"}
       => \A p \in Range(available_people) :
            /\ RoomsInWeekOf(week_num, p) = person_assignments_count[p]
            /\ RoomsInWeekOf(week_num, p) <= person_targets[p]
  /\ pc = "room_loop"
       => \A p \in Range(available_today) :
            RoomsInWeekOf(week_num, p) < person_targets[p]

\* a person reached a target of 2, left the pool of the date, and somebody
\* else is still under target
C25_Witness ==
  /\ pc = "room_loop"
  /\ \E p \in Range(available_people) :
       /\ person_targets[p] = 2
       /\ RoomsInWeekOf(week_num, p) = 2
       /\ p \notin Range(available_today)
  /\ \E q \in Range(available_today) :
       RoomsInWeekOf(week_num, q) < person_targets[q]

(* ---------------------------------------------------------------------- *)
(* Rotation of the group                                                   *)
(* ---------------------------------------------------------------------- *)

\* 3 people, nobody ever away, no exclusion, the single group Cucina+Veranda:
\* every week of the month is assigned by units
AllWeeksGrouped ==
  /\ Len(people) = 3
  /\ absences = NoAbsences(3)
  /\ \A p \in Range(people) : excluded_first_week[p] = {}
  /\ OneGroupConfig

\* the people with a grouped assignment in week w
GroupHolders(w) ==
  {assignments[i].person : i \in {j \in DOMAIN assignments :
     assignments[j].week_number = w /\ assignments[j].is_grouped}}

\* C26: when every week is assigned by units the group has one holder per
\* week, nobody holds it in two consecutive weeks, and nobody holds it a
\* second time before each of the three people has held it
C26_GroupRotates ==
  AllWeeksGrouped =>
    \A w \in DOMAIN weeks :
      w < week_num =>
        /\ Cardinality(GroupHolders(w)) = 1
        /\ w > 1 => GroupHolders(w) \cap GroupHolders(w - 1) = {}
        /\ \A v \in 1..(w - 1) :
             GroupHolders(v) = GroupHolders(w)
               => \A p \in Range(people) :
                    \E u \in 1..(w - 1) : p \in GroupHolders(u)

\* a month of 5 weeks is over: the holder of week 1 holds the group again in
\* week 4, after the two others
C26_Witness ==
  /\ AllWeeksGrouped
  /\ pc = "done"
  /\ Len(weeks) = 5
  /\ GroupHolders(4) = GroupHolders(1)
  /\ Cardinality(GroupHolders(1) \cup GroupHolders(2) \cup GroupHolders(3)) = 3

\* C27: in a week assigned by units nobody receives more rooms than the
\* target _calculate_balanced_targets_with_grouping computed for the week
C27_GroupedWeekWithinTargets ==
  pc \in {"units", "unit_fallback"}
    => \A p \in Range(available_people) :
         RoomsInWeekOf(week_num, p) <= person_targets[p]

(* ---------------------------------------------------------------------- *)
(* Groups that are not valid                                               *)
(* ---------------------------------------------------------------------- *)

\* the names of the configured groups with fewer than 2 rooms of the room set
ShortGroupNames ==
  {room_groups_config.gruppi[i].nome :
     i \in {j \in DOMAIN room_groups_config.gruppi :
              Cardinality(Range(room_groups_config.gruppi[j].stanze)
                            \cap RoomSet) < 2}}

\* C28: a configured group with fewer than 2 rooms of the room set is left
\* out of the active groups, the run does not fail, the group never forms a
\* unit and no assignment is marked with it
C28_ShortGroupIsLeftOut ==
  (room_groups_config.abilitato /\ ShortGroupNames # {})
    => /\ \A i \in DOMAIN room_groups : room_groups[i].nome \notin ShortGroupNames
       /\ \A i \in DOMAIN assignment_units :
            assignment_units[i].name \notin ShortGroupNames
       /\ \A i \in DOMAIN assignments :
            assignments[i].group_name \notin ShortGroupNames
       /\ pc # "raised"

\* the run with the group Bagno+Soffitta is over for 3 people, and Bagno was
\* given every week as a single room
C28_Witness ==
  /\ room_groups_config.abilitato
  /\ "Bagno+Soffitta" \in ShortGroupNames
  /\ pc = "done"
  /\ Len(people) = 3
  /\ \A w \in DOMAIN weeks :
       \E i \in DOMAIN assignments :
         /\ assignments[i].week_number = w
         /\ assignments[i].room = "Bagno"
         /\ ~assignments[i].is_grouped

(* ---------------------------------------------------------------------- *)
(* The person-for-room score                                               *)
(* ---------------------------------------------------------------------- *)

\* how often the people in context have cleaned the room, at least
LowestCountToday(room) ==
  Min({room_assignments[q][room] : q \in Range(available_today)})

LowestLoadToday == Min({total_assignments[q] : q \in Range(available_today)})

RotationTerm(p, room) ==
  LET over == room_assignments[p][room] - LowestCountToday(room)
  IN IF over = 0 THEN 400 ELSE IF over = 1 THEN 200 ELSE 0 - 100 * over

LoadTerm(p) ==
  LET over == total_assignments[p] - LowestLoadToday
  IN IF over = 0 THEN 600
     ELSE IF over = 1 THEN 400
     ELSE IF over = 2 THEN 200
     ELSE 0 - 150 * over

\* Monday is 0
DayTerm(d) ==
  LET wd == weekday(d)
  IN (IF wd <= 4 THEN 30 ELSE 10)
     + (CASE wd = 0 -> 15 [] wd = 1 -> 12 [] wd = 2 -> 10 [] wd = 3 -> 8
          [] wd = 4 -> 5 [] wd = 5 -> 3 [] wd = 6 -> 1)

\* C29: the score of a candidate is the room-rotation term plus the load
\* term plus the weekday term plus the bonus of the day of the week
C29_ScoreIsSumOfFourTerms ==
  pc = "score_done"
    => /\ Len(candidate_scores) = Len(available_today)
       /\ \A i \in DOMAIN candidate_scores :
            candidate_scores[i][1]
              = RotationTerm(candidate_scores[i][2], prioritized_rooms[1])
                + LoadTerm(candidate_scores[i][2])
                + DayTerm(current_date)

\* on a Saturday one candidate scores 400 + 600 + 10 + 3 and the other, 2
\* rooms and 3 assignments above the first, scores -200 - 450 + 10 + 3
C29_Witness ==
  /\ pc = "score_done"
  /\ weekday(current_date) = 5
  /\ \E i, j \in DOMAIN candidate_scores :
       /\ candidate_scores[i][1] = 1013
       /\ candidate_scores[j][1] = -637
       /\ total_assignments[candidate_scores[j][2]]
            = total_assignments[candidate_scores[i][2]] + 3

(* ---------------------------------------------------------------------- *)
(* Counters and ledger                                                     *)
(* ---------------------------------------------------------------------- *)

\* the ledger entries of person p
EntriesOfPerson(p) == {i \in DOMAIN assignments : assignments[i].person = p}

\* the ledger entries of room r for person p
EntriesOfPersonAndRoom(p, r) ==
  {i \in EntriesOfPerson(p) : assignments[i].room = r}

CountersAgreeWithLedger ==
  /\ \A p \in DOMAIN total_assignments :
       /\ total_assignments[p] = Cardinality(EntriesOfPerson(p))
       /\ \A r \in RoomSet :
            room_assignments[p][r] = Cardinality(EntriesOfPersonAndRoom(p, r))
  /\ SumSeq(total_assignments) = Len(assignments)

\* a call of generate_schedule leaves every counter at 0 and the ledger empty
CallStartsFromZero ==
  pc = "idle"
    => /\ assignments' = <<>>
       /\ DOMAIN total_assignments' = Range(people')
       /\ \A p \in DOMAIN total_assignments' :
            /\ total_assignments'[p] = 0
            /\ \A r \in RoomSet : room_assignments'[p][r] = 0

\* C30: in every state of a run room_assignments[r] and total_assignments of
\* every person are the numbers of the person's ledger entries, the totals
\* sum to the length of the ledger, and a call starts with every counter at 0
C30_CountersAgreeWithLedger ==
  [][CallStartsFromZero]_vars /\ []CountersAgreeWithLedger

\* a run of 5 weeks is over and somebody has cleaned a room twice
C30_Witness ==
  /\ pc = "done"
  /\ Len(weeks) = 5
  /\ Len(assignments) >= 10
  /\ \E p \in DOMAIN total_assignments : \E r \in RoomSet :
       /\ room_assignments[p][r] = 2
       /\ Cardinality(EntriesOfPersonAndRoom(p, r)) = 2

====
